---------------------------- MODULE Spec2Model ----------------------------
(***************************************************************************)
(* Model of the WhatsApp webhook of main.py: GET / (index) and             *)
(* POST /message (reply), with the per-request database session of get_db. *)
(* Every request is one logical task; tasks interleave at the steps below. *)
(* Text values are TLA+ strings, except the From field and the sender      *)
(* number, which are sequences of characters so that str.split is computed *)
(* as Python computes it.                                                  *)
(***************************************************************************)
EXTENDS Integers, Sequences, FiniteSets, TLC

VARIABLES
    pc,                 \* position of each request's task
    method,             \* "GET" or "POST" ("-" before the request arrives)
    Body,               \* the Body form field of the request
    From,               \* the From form field of the request
    whatsapp_number,    \* local of reply (main.py:38)
    chatgpt_response,   \* local of reply (main.py:54)
    completion,         \* the completion API's record of the request's call
    db,                 \* the request's Session (get_db)
    closes,             \* number of db.close() calls made for the request
    status,             \* HTTP status returned (0: no response yet)
    respBody,           \* HTTP body returned
    exc,                \* exception that left the handler ("-": none)
    caught,             \* exception caught by the except clause (main.py:67)
    calls,              \* send_message calls made by the request
    table,              \* the conversations table (committed rows)
    nextId              \* value of the table's identifier sequence

vars == <<pc, method, Body, From, whatsapp_number, chatgpt_response,
          completion, db,
          closes, status, respBody, exc, caught, calls, table, nextId>>

---------------------------------------------------------------------------
(* Bounds and input sets *)

MaxReqs == 2

Reqs == 1..MaxReqs

NoField == "<absent>"
NoText == "<unset>"
NoNumber == <<"<unset>">>
NoFrom == <<"<absent>">>

WhatsappPrefix == <<"w", "h", "a", "t", "s", "a", "p", "p", ":">>

Numbers == {<<"+", "1">>, <<"+", "2">>}

\* well-formed From values: <prefix><number>
WellFormedFroms == {WhatsappPrefix \o n : n \in Numbers}

\* From values lacking the prefix
BareFroms == {<<"+", "1">>}

Froms == WellFormedFroms \cup BareFroms

Bodies == {"How do I make hummus?"}

Texts == {"recipe A", "recipe B"}

SystemPrompt == "You're an experienced chef ..."

---------------------------------------------------------------------------
(* str.split(sep)[-1], as CPython computes it *)

\* s[i .. i+Len(sep)-1] = sep
MatchAt(s, sep, i) ==
    /\ i + Len(sep) - 1 <= Len(s)
    /\ SubSeq(s, i, i + Len(sep) - 1) = sep

\* str.find(sep, i): first index >= i where sep occurs, 0 when there is none
RECURSIVE Find(_, _, _)
Find(s, sep, i) ==
    IF i + Len(sep) - 1 > Len(s) THEN 0
    ELSE IF MatchAt(s, sep, i) THEN i
    ELSE Find(s, sep, i + 1)

\* the pieces of s[i..] between the occurrences of sep, scanning left to right
RECURSIVE SplitFrom(_, _, _)
SplitFrom(s, sep, i) ==
    LET j == Find(s, sep, i) IN
    IF j = 0 THEN <<SubSeq(s, i, Len(s))>>
    ELSE <<SubSeq(s, i, j - 1)>> \o SplitFrom(s, sep, j + Len(sep))

Split(s, sep) == SplitFrom(s, sep, 1)

\* form_data['From'].split("whatsapp:")[-1]
ExtractNumber_first(from) == Split(from, WhatsappPrefix)[1]

ExtractNumber_slice(from) == SubSeq(from, Len(WhatsappPrefix) + 1, Len(from))

ExtractNumber(from) ==
    LET parts == Split(from, WhatsappPrefix) IN parts[Len(parts)]

Contains(s, sep) == Find(s, sep, 1) # 0

---------------------------------------------------------------------------
(* Collaborators *)

\* the prompt list built at main.py:42-43
Messages(body) ==
    <<[role |-> "user", content |-> body],
      [role |-> "system", content |-> SystemPrompt]>>

\* the responses openai.ChatCompletion.create may return for n = 1
Completions(messages) ==
    {[prompt |-> messages, choices |-> <<[message |-> [content |-> t]]>>] :
        t \in Texts}

\* response.choices[0].message.content
FirstChoiceText(response) == response.choices[1].message.content

\* Conversation(sender=..., message=..., response=...) before insertion
Conversation(r, sender, message, response) ==
    [req |-> r, id |-> 0, sender |-> sender, message |-> message,
     response |-> response]

\* the message utils.send_message addresses: the prefix is re-applied
send_message(to_number, body_text) ==
    [to |-> WhatsappPrefix \o to_number, body |-> body_text]

NoCall == [outcome |-> "-", prompt |-> <<>>, text |-> NoText]

NewSession == [state |-> "open", txn |-> "idle", pending |-> <<>>]
NoSession == [state |-> "none", txn |-> "idle", pending |-> <<>>]

RowsOf(r) == {i \in 1..Len(table) : table[i].req = r}

---------------------------------------------------------------------------
Init ==
    /\ pc = [r \in Reqs |-> "idle"]
    /\ method = [r \in Reqs |-> "-"]
    /\ Body = [r \in Reqs |-> NoField]
    /\ From = [r \in Reqs |-> NoFrom]
    /\ whatsapp_number = [r \in Reqs |-> NoNumber]
    /\ chatgpt_response = [r \in Reqs |-> NoText]
    /\ completion = [r \in Reqs |-> NoCall]
    /\ db = [r \in Reqs |-> NoSession]
    /\ closes = [r \in Reqs |-> 0]
    /\ status = [r \in Reqs |-> 0]
    /\ respBody = [r \in Reqs |-> NoText]
    /\ exc = [r \in Reqs |-> "-"]
    /\ caught = [r \in Reqs |-> "-"]
    /\ calls = [r \in Reqs |-> <<>>]
    /\ table = <<>>
    /\ nextId = 1

\* an exception leaves reply: the framework answers 500 and the dependency's
\* finally clause still runs (get_db, main.py:26-27)
Raise_skip_finally(r, e) ==
    /\ exc' = [exc EXCEPT ![r] = e]
    /\ status' = [status EXCEPT ![r] = 500]
    /\ respBody' = [respBody EXCEPT ![r] = "Internal Server Error"]
    /\ pc' = [pc EXCEPT ![r] = "done"]

Raise(r, e) ==
    /\ exc' = [exc EXCEPT ![r] = e]
    /\ status' = [status EXCEPT ![r] = 500]
    /\ respBody' = [respBody EXCEPT ![r] = "Internal Server Error"]
    /\ pc' = [pc EXCEPT ![r] = "teardown"]

\* GET /
index(r) ==
    /\ pc[r] = "idle"
    /\ method' = [method EXCEPT ![r] = "GET"]
    /\ status' = [status EXCEPT ![r] = 200]
    /\ respBody' = [respBody EXCEPT ![r] = "{msg: working}"]
    /\ pc' = [pc EXCEPT ![r] = "done"]
    /\ UNCHANGED <<Body, From, whatsapp_number, chatgpt_response, completion, db, closes,
                   exc, caught, calls, table, nextId>>

\* POST /message arrives; Depends(get_db) opens the request's session
get_db(r) ==
    /\ pc[r] = "idle"
    /\ method' = [method EXCEPT ![r] = "POST"]
    /\ \E b \in Bodies \cup {NoField} : Body' = [Body EXCEPT ![r] = b]
    /\ db' = [db EXCEPT ![r] = NewSession]
    /\ pc' = [pc EXCEPT ![r] = "validate"]
    /\ UNCHANGED <<From, whatsapp_number, chatgpt_response, completion, closes, status,
                   respBody, exc, caught, calls, table, nextId>>

\* Body: str = Form() is required: a request without it is answered 422
\* and reply is not entered
ValidateBody(r) ==
    /\ pc[r] = "validate"
    /\ IF Body[r] = NoField
       THEN /\ status' = [status EXCEPT ![r] = 422]
            /\ respBody' = [respBody EXCEPT ![r] = "Unprocessable Entity"]
            /\ exc' = [exc EXCEPT ![r] = "RequestValidationError"]
            /\ pc' = [pc EXCEPT ![r] = "teardown"]
       ELSE /\ pc' = [pc EXCEPT ![r] = "extract"]
            /\ UNCHANGED <<status, respBody, exc>>
    /\ UNCHANGED <<method, Body, From, whatsapp_number, chatgpt_response, completion, db,
                   closes, caught, calls, table, nextId>>

\* main.py:37-38: the form is read and the sender extracted; the From field
\* the request carries is drawn here, where it is first read
ExtractSender(r) ==
    /\ pc[r] = "extract"
    /\ \E f \in Froms \cup {NoFrom} :
        /\ From' = [From EXCEPT ![r] = f]
        /\ IF f = NoFrom
           THEN /\ Raise(r, "KeyError")
                /\ UNCHANGED whatsapp_number
           ELSE /\ whatsapp_number' =
                      [whatsapp_number EXCEPT ![r] = ExtractNumber(f)]
                /\ pc' = [pc EXCEPT ![r] = "complete"]
                /\ UNCHANGED <<status, respBody, exc>>
    /\ UNCHANGED <<method, Body, chatgpt_response, completion, db, closes, caught, calls,
                   table, nextId>>

\* main.py:42-55, the completion call returns
CompleteOk(r) ==
    /\ pc[r] = "complete"
    /\ LET messages == Messages(Body[r]) IN
        \E response \in Completions(messages) :
            /\ completion' = [completion EXCEPT ![r] =
                    [outcome |-> "ok", prompt |-> messages,
                     text |-> response.choices[1].message.content]]
            /\ chatgpt_response' =
                    [chatgpt_response EXCEPT ![r] = FirstChoiceText(response)]
    /\ pc' = [pc EXCEPT ![r] = "add"]
    /\ UNCHANGED <<method, Body, From, whatsapp_number, db, closes, status,
                   respBody, exc, caught, calls, table, nextId>>

\* main.py:44, the completion call raises
CompleteFail_swallowed(r) ==
    /\ pc[r] = "complete"
    /\ completion' = [completion EXCEPT ![r] =
            [outcome |-> "failed", prompt |-> Messages(Body[r]),
             text |-> NoText]]
    /\ chatgpt_response' = [chatgpt_response EXCEPT ![r] = "Sorry"]
    /\ pc' = [pc EXCEPT ![r] = "add"]
    /\ UNCHANGED <<method, Body, From, whatsapp_number, db, closes, status,
                   respBody, exc, caught, calls, table, nextId>>

CompleteFail(r) ==
    /\ pc[r] = "complete"
    /\ completion' = [completion EXCEPT ![r] =
            [outcome |-> "failed", prompt |-> Messages(Body[r]),
             text |-> NoText]]
    /\ Raise(r, "OpenAIError")
    /\ UNCHANGED <<method, Body, From, whatsapp_number, chatgpt_response, db,
                   closes, caught, calls, table, nextId>>

\* main.py:59-64
AddConversation_twice(r) ==
    /\ pc[r] = "add"
    /\ db[r].state = "open"
    /\ LET c == Conversation(r, whatsapp_number[r], Body[r],
                             chatgpt_response[r]) IN
        db' = [db EXCEPT ![r].txn = "active", ![r].pending = <<c, c>>]
    /\ pc' = [pc EXCEPT ![r] = "commit"]
    /\ UNCHANGED <<method, Body, From, whatsapp_number, chatgpt_response,
                   completion, closes, status, respBody, exc, caught, calls,
                   table, nextId>>

AddConversation(r) ==
    /\ pc[r] = "add"
    /\ db[r].state = "open"
    /\ db' = [db EXCEPT ![r].txn = "active",
                        ![r].pending =
                            <<Conversation(r, whatsapp_number[r], Body[r],
                                           chatgpt_response[r])>>]
    /\ pc' = [pc EXCEPT ![r] = "commit"]
    /\ UNCHANGED <<method, Body, From, whatsapp_number, chatgpt_response, completion,
                   closes, status, respBody, exc, caught, calls, table, nextId>>

\* rows a successful commit appends: the pending rows, each given the next
\* value of the identifier sequence
Inserted(pending, id) ==
    [i \in 1..Len(pending) |-> [pending[i] EXCEPT !.id = id + i - 1]]

\* main.py:65-66, commit succeeds
CommitOk(r) ==
    /\ pc[r] = "commit"
    /\ table' = table \o Inserted(db[r].pending, nextId)
    /\ nextId' = nextId + Len(db[r].pending)
    /\ db' = [db EXCEPT ![r].txn = "idle", ![r].pending = <<>>]
    /\ pc' = [pc EXCEPT ![r] = "send"]
    /\ UNCHANGED <<method, Body, From, whatsapp_number, chatgpt_response, completion,
                   closes, status, respBody, exc, caught, calls>>

\* main.py:65, commit raises SQLAlchemyError: nothing is committed and the
\* session's transaction is failed until rollback
CommitFail(r) ==
    /\ pc[r] = "commit"
    /\ db' = [db EXCEPT ![r].txn = "failed"]
    /\ caught' = [caught EXCEPT ![r] = "SQLAlchemyError"]
    /\ pc' = [pc EXCEPT ![r] = "except"]
    /\ UNCHANGED <<method, Body, From, whatsapp_number, chatgpt_response, completion,
                   closes, status, respBody, exc, calls, table, nextId>>

\* main.py:67-69, the except clause
HandleSQLAlchemyError_reraise(r) ==
    /\ pc[r] = "except"
    /\ db' = [db EXCEPT ![r].txn = "idle", ![r].pending = <<>>]
    /\ Raise(r, caught[r])
    /\ UNCHANGED <<method, Body, From, whatsapp_number, chatgpt_response, completion,
                   closes, caught, calls, table, nextId>>

HandleSQLAlchemyError_no_rollback(r) ==
    /\ pc[r] = "except"
    /\ pc' = [pc EXCEPT ![r] = "send"]
    /\ UNCHANGED <<method, Body, From, whatsapp_number, chatgpt_response, completion, db,
                   closes, status, respBody, exc, caught, calls, table, nextId>>

HandleSQLAlchemyError(r) ==
    /\ pc[r] = "except"
    /\ db' = [db EXCEPT ![r].txn = "idle", ![r].pending = <<>>]
    /\ pc' = [pc EXCEPT ![r] = "send"]
    /\ UNCHANGED <<method, Body, From, whatsapp_number, chatgpt_response, completion,
                   closes, status, respBody, exc, caught, calls, table, nextId>>

\* the arguments reply passes to send_message (main.py:70)
SendArgs_shared(r) ==
    LET q == CHOOSE q \in Reqs : whatsapp_number[q] # NoNumber
    IN [to_number |-> whatsapp_number[q], body_text |-> chatgpt_response[r]]

SendArgs(r) ==
    [to_number |-> whatsapp_number[r], body_text |-> chatgpt_response[r]]

\* main.py:70-71, send_message returns and reply returns ""
SendOk(r) ==
    /\ pc[r] = "send"
    /\ LET a == SendArgs(r) IN
        calls' = [calls EXCEPT ![r] = Append(@,
                    [to_number |-> a.to_number, body_text |-> a.body_text,
                     msg |-> send_message(a.to_number, a.body_text),
                     delivered |-> TRUE])]
    /\ status' = [status EXCEPT ![r] = 200]
    /\ respBody' = [respBody EXCEPT ![r] = ""]
    /\ pc' = [pc EXCEPT ![r] = "teardown"]
    /\ UNCHANGED <<method, Body, From, whatsapp_number, chatgpt_response, completion, db,
                   closes, exc, caught, table, nextId>>

\* main.py:70, send_message raises
SendFail_swallowed(r) ==
    /\ pc[r] = "send"
    /\ LET a == SendArgs(r) IN
        calls' = [calls EXCEPT ![r] = Append(@,
                    [to_number |-> a.to_number, body_text |-> a.body_text,
                     msg |-> send_message(a.to_number, a.body_text),
                     delivered |-> FALSE])]
    /\ status' = [status EXCEPT ![r] = 200]
    /\ respBody' = [respBody EXCEPT ![r] = ""]
    /\ pc' = [pc EXCEPT ![r] = "teardown"]
    /\ UNCHANGED <<method, Body, From, whatsapp_number, chatgpt_response,
                   completion, db, closes, exc, caught, table, nextId>>

SendFail_compensated(r) ==
    /\ pc[r] = "send"
    /\ LET a == SendArgs(r) IN
        calls' = [calls EXCEPT ![r] = Append(@,
                    [to_number |-> a.to_number, body_text |-> a.body_text,
                     msg |-> send_message(a.to_number, a.body_text),
                     delivered |-> FALSE])]
    /\ table' = SelectSeq(table, LAMBDA row : row.req # r)
    /\ Raise(r, "MessengerError")
    /\ UNCHANGED <<method, Body, From, whatsapp_number, chatgpt_response,
                   completion, db, closes, caught, nextId>>

SendFail(r) ==
    /\ pc[r] = "send"
    /\ LET a == SendArgs(r) IN
        calls' = [calls EXCEPT ![r] = Append(@,
                    [to_number |-> a.to_number, body_text |-> a.body_text,
                     msg |-> send_message(a.to_number, a.body_text),
                     delivered |-> FALSE])]
    /\ Raise(r, "MessengerError")
    /\ UNCHANGED <<method, Body, From, whatsapp_number, chatgpt_response, completion, db,
                   closes, caught, table, nextId>>

\* get_db's finally clause (main.py:26-27): db.close() drops whatever the
\* session still holds
CloseDb(r) ==
    /\ pc[r] = "teardown"
    /\ db' = [db EXCEPT ![r] = [state |-> "closed", txn |-> "idle",
                                pending |-> <<>>]]
    /\ closes' = [closes EXCEPT ![r] = @ + 1]
    /\ pc' = [pc EXCEPT ![r] = "done"]
    /\ UNCHANGED <<method, Body, From, whatsapp_number, chatgpt_response, completion,
                   status, respBody, exc, caught, calls, table, nextId>>

Next ==
    \E r \in Reqs :
        \/ index(r)
        \/ get_db(r)
        \/ ValidateBody(r)
        \/ ExtractSender(r)
        \/ CompleteOk(r)
        \/ CompleteFail(r)
        \/ AddConversation(r)
        \/ CommitOk(r)
        \/ CommitFail(r)
        \/ HandleSQLAlchemyError(r)
        \/ SendOk(r)
        \/ SendFail(r)
        \/ CloseDb(r)

Spec == Init /\ [][Next]_vars

---------------------------------------------------------------------------
(* Vocabulary of the properties *)

TypeOK ==
    /\ pc \in [Reqs -> {"idle", "validate", "extract", "complete", "add",
                        "commit", "except", "send", "teardown", "done"}]
    /\ \A r \in Reqs : closes[r] \in 0..2 /\ status[r] \in {0, 200, 422, 500}
    /\ nextId = Len(table) + 1

\* reply has returned or raised (the session may still be open)
Finished(r) == pc[r] \in {"teardown", "done"}

CompletionOk(r) == completion[r].outcome = "ok"

CompletionFailed(r) == completion[r].outcome = "failed"

\* add/commit raised for the request
PersistFailed(r) == caught[r] = "SQLAlchemyError"

\* add and commit returned for the request
PersistOk(r) ==
    /\ CompletionOk(r)
    /\ pc[r] \in {"send", "teardown", "done"}
    /\ caught[r] = "-"

SendFailed(r) == \E i \in 1..Len(calls[r]) : ~calls[r][i].delivered

Delivered(r) == \E i \in 1..Len(calls[r]) : calls[r][i].delivered

\* From is <prefix><number>, the number free of the prefix
WellFormed(from) ==
    /\ from # NoFrom
    /\ Len(from) >= Len(WhatsappPrefix)
    /\ SubSeq(from, 1, Len(WhatsappPrefix)) = WhatsappPrefix
    /\ ~Contains(SubSeq(from, Len(WhatsappPrefix) + 1, Len(from)),
                 WhatsappPrefix)

AfterPrefix(from) == SubSeq(from, Len(WhatsappPrefix) + 1, Len(from))

LacksPrefix(from) == from # NoFrom /\ ~Contains(from, WhatsappPrefix)

IsPrefixOf(s, t) == Len(s) <= Len(t) /\ SubSeq(t, 1, Len(s)) = s

UniqueIds(t) == \A i, j \in 1..Len(t) : t[i].id = t[j].id => i = j

\* the one messenger call of r was made with r's sender and r's text
OneCallWithOwnValues(r) ==
    /\ Len(calls[r]) = 1
    /\ calls[r][1].to_number = ExtractNumber(From[r])
    /\ calls[r][1].body_text = completion[r].text

---------------------------------------------------------------------------
(* C1 *)

\* C1 as stated: whenever the completion succeeded and persisting failed, the
\* finished request made exactly one messenger call with its sender and text
\* and answered 200 with the empty body.
C1_AsStated ==
    \A r \in Reqs :
        (Finished(r) /\ CompletionOk(r) /\ PersistFailed(r)) =>
            /\ OneCallWithOwnValues(r)
            /\ status[r] = 200 /\ respBody[r] = ""
            /\ exc[r] # "SQLAlchemyError"

\* C1 amended: whenever the completion succeeded and persisting failed, the
\* finished request made exactly one messenger call with its sender and text,
\* the persistence error did not leave the handler, and the request answered
\* 200 with the empty body unless that messenger call itself raised.
C1_DeliveryDespitePersistFailure ==
    \A r \in Reqs :
        (Finished(r) /\ CompletionOk(r) /\ PersistFailed(r)) =>
            /\ OneCallWithOwnValues(r)
            /\ exc[r] # "SQLAlchemyError"
            /\ calls[r][1].delivered =>
                   (status[r] = 200 /\ respBody[r] = "" /\ exc[r] = "-")
            /\ ~calls[r][1].delivered => exc[r] = "MessengerError"

C1_Witness ==
    \E r \in Reqs :
        /\ Finished(r) /\ CompletionOk(r) /\ PersistFailed(r)
        /\ Delivered(r) /\ status[r] = 200 /\ RowsOf(r) = {}

---------------------------------------------------------------------------
(* C2 *)

\* C2: a request with a well-formed From whose add and commit returned has
\* exactly one row in the table, holding the part of From after the prefix,
\* the request's Body and the first completion's text.
C2_OneMatchingRow ==
    \A r \in Reqs :
        (PersistOk(r) /\ WellFormed(From[r])) =>
            /\ Cardinality(RowsOf(r)) = 1
            /\ \A i \in RowsOf(r) :
                /\ table[i].sender = AfterPrefix(From[r])
                /\ table[i].message = Body[r]
                /\ table[i].response = completion[r].text

C2_Witness ==
    \E r \in Reqs :
        /\ PersistOk(r) /\ WellFormed(From[r]) /\ CompletionOk(r)
        /\ \E i \in RowsOf(r) : table[i].sender \in Numbers

---------------------------------------------------------------------------
(* C3 *)

\* C3: a request whose completion call failed ends with the error response,
\* has no row in the table and made no messenger call.
C3_CompletionFailurePropagates ==
    \A r \in Reqs :
        CompletionFailed(r) =>
            /\ Finished(r)
            /\ exc[r] = "OpenAIError"
            /\ status[r] = 500 /\ respBody[r] # ""
            /\ RowsOf(r) = {}
            /\ calls[r] = <<>>

C3_Witness ==
    \E r \in Reqs : CompletionFailed(r) /\ pc[r] = "done" /\ status[r] = 500

---------------------------------------------------------------------------
(* C4 *)

\* C4: a request whose messenger call failed ends with the error response,
\* never with the empty 200 body, whether or not its row was committed.
C4_MessengerFailurePropagates ==
    \A r \in Reqs :
        SendFailed(r) =>
            /\ Finished(r)
            /\ exc[r] = "MessengerError"
            /\ status[r] = 500 /\ respBody[r] # ""

C4_Witness ==
    \E r, q \in Reqs :
        /\ SendFailed(r) /\ PersistOk(r) /\ RowsOf(r) # {}
        /\ SendFailed(q) /\ PersistFailed(q)
        /\ status[r] = 500 /\ status[q] = 500

---------------------------------------------------------------------------
(* C5 *)

\* C5: once the handler has finished a request whose commit raised, the table
\* holds no row of that request and its session has neither a failed
\* transaction nor a pending row.
C5_RolledBack ==
    \A r \in Reqs :
        (PersistFailed(r) /\ Finished(r)) =>
            /\ RowsOf(r) = {}
            /\ db[r].txn = "idle"
            /\ db[r].pending = <<>>

C5_Witness ==
    \E r \in Reqs :
        /\ PersistFailed(r) /\ pc[r] = "teardown" /\ db[r].state = "open"
        /\ table = <<>>

---------------------------------------------------------------------------
(* C6 *)

\* C6: a session is never closed more than once, and a request that has ended
\* after acquiring a session has closed it exactly once, whatever the exit
\* path; a GET / request acquires none.
C6_SessionReleased ==
    \A r \in Reqs :
        /\ closes[r] <= 1
        /\ (pc[r] = "done" /\ method[r] = "POST") =>
               (db[r].state = "closed" /\ closes[r] = 1)
        /\ db[r].state = "open" => (pc[r] # "done" /\ closes[r] = 0)
        /\ method[r] = "GET" => db[r].state = "none"

C6_Witness ==
    \E r, q \in Reqs :
        /\ pc[r] = "done" /\ exc[r] = "KeyError" /\ closes[r] = 1
        /\ pc[q] = "done" /\ exc[q] \in {"OpenAIError", "MessengerError"}
        /\ closes[q] = 1

---------------------------------------------------------------------------
(* C7 *)

\* C7 as stated: a request whose From is present but lacks the prefix raises
\* during the split, so it neither completes, persists nor replies.
C7_AsStated ==
    \A r \in Reqs :
        LacksPrefix(From[r]) =>
            /\ whatsapp_number[r] = NoNumber
            /\ exc[r] # "-"
            /\ completion[r] = NoCall
            /\ RowsOf(r) = {}
            /\ calls[r] = <<>>

\* C7 amended: the split does not raise on a From that lacks the prefix: the
\* sender is the whole From and the request goes on to the completion call;
\* the extraction raises (KeyError) only when From is absent, and then the
\* request neither completes, persists nor replies.
C7_SplitIsPrefixAgnostic ==
    \A r \in Reqs :
        /\ LacksPrefix(From[r]) =>
            /\ whatsapp_number[r] = From[r]
            /\ exc[r] # "KeyError"
            /\ pc[r] = "complete" \/ completion[r] # NoCall
        /\ (From[r] = NoFrom /\ pc[r] \in {"teardown", "done"}
                /\ method[r] = "POST" /\ Body[r] # NoField) =>
            /\ exc[r] = "KeyError" /\ status[r] = 500
            /\ completion[r] = NoCall /\ RowsOf(r) = {} /\ calls[r] = <<>>

C7_Witness ==
    \E r, q \in Reqs :
        /\ LacksPrefix(From[r]) /\ status[r] = 200 /\ Delivered(r)
        /\ \E i \in RowsOf(r) : table[i].sender = From[r]
        /\ exc[q] = "KeyError"

---------------------------------------------------------------------------
(* C8 *)

\* C8: every step leaves the rows already in the table as they were and adds
\* at most one row; identifiers are unique; a POST /message request has at
\* most one row and a GET / request none.
C8_AppendOnly ==
    [][ /\ IsPrefixOf(table, table')
        /\ Len(table') <= Len(table) + 1
        /\ UniqueIds(table')
        /\ \A r \in Reqs :
            /\ Cardinality({i \in 1..Len(table') : table'[i].req = r}) <= 1
            /\ method'[r] = "GET" =>
                   {i \in 1..Len(table') : table'[i].req = r} = {}
      ]_vars

C8_Witness ==
    /\ Len(table) = 2
    /\ table[1].id # table[2].id
    /\ \A r \in Reqs : pc[r] = "done"

---------------------------------------------------------------------------
(* C9 *)

---------------------------------------------------------------------------
(* C10 *)

\* C10: when the commit succeeded and the messenger call then failed, the
\* request's row is still in the table with its values, although the request
\* ended with the error response and nothing was delivered.
C10_RowSurvivesSendFailure ==
    \A r \in Reqs :
        (PersistOk(r) /\ SendFailed(r)) =>
            /\ Cardinality(RowsOf(r)) = 1
            /\ \A i \in RowsOf(r) :
                /\ table[i].sender = whatsapp_number[r]
                /\ table[i].message = Body[r]
                /\ table[i].response = chatgpt_response[r]
            /\ status[r] = 500
            /\ ~Delivered(r)

C10_Witness ==
    \E r \in Reqs :
        /\ PersistOk(r) /\ SendFailed(r) /\ pc[r] = "done"
        /\ RowsOf(r) # {} /\ ~Delivered(r) /\ status[r] = 500

=============================================================================
